---- MODULE Spec2Model ----
(***************************************************************************)
(* Model of src/apache_jira_scraper.py: the resumable paginated crawl of   *)
(* one Jira project (scrape_project), its checkpoint file (read_state /    *)
(* save_state), its two append-only logs (write_jsonl), the throttle       *)
(* (throttle_sleep), the per-issue detail fetch (fetch_issue) and the      *)
(* session every request goes through, with its mounted Retry (lines       *)
(* 45-54).                                                                 *)
(*                                                                         *)
(* session.get, with that Retry mounted, sends the request again by itself *)
(* when the connection fails or the answer's status is in                  *)
(* status_forcelist, at most total times, and raises when that budget is   *)
(* used up; it returns a response only for a status outside the list.     *)
(* 429 is in the list: the branches of lines 185-190 and 151-156, which    *)
(* test the status of a returned response for 429, are never entered, and  *)
(* the model has no action for them.                                       *)
(*                                                                         *)
(* Time is counted in whole seconds.  Only differences of time.time()      *)
(* values are ever used by the program, so the model keeps ages (seconds   *)
(* since an instant) instead of absolute instants; every age saturates at  *)
(* the largest value the program or a property compares it with.           *)
(*                                                                         *)
(* Issue keys are integers; the remote project is the sequence of its      *)
(* keys in the order of the JQL query (ORDER BY created ASC).  The JSON    *)
(* array "seen_issue_keys" is kept as the set of its elements (the program *)
(* reads it back with set()).                                              *)
(***************************************************************************)
EXTENDS Integers, Sequences, FiniteSets

\* ---------------------------------------------------------------- bounds
MaxTotal == 3           \* largest number of issues of the remote project
ServerMaxResults == 2   \* the server's own cap on the size of a page
MaxCrashes == 1         \* how many times the process may be killed
MaxLatency == 1         \* longest time (s) between a request and its answer
MaxRetryAfter == 1      \* largest integer the server sends as Retry-After
MaxMisreports == 1      \* how many list answers may misreport their offset or item count
MainMaxTotal == 1       \* largest number of issues of a project when main crawls them all

\* ----------------------------------------------------- program constants
MAX_RESULTS == 50
REQUESTS_PER_MINUTE == 60
DefaultRetryWait == 60
ServerErrorSleep == 10
RETRY_TOTAL == 5
BACKOFF_FACTOR == 1
STATUS_FORCELIST == {429, 500, 502, 503, 504}
PROJECTS == <<"HADOOP", "SPARK", "KAFKA">>

\* How far the rounds of lines 191-194 in a row are counted: past Retry.total.
MaxLoops == RETRY_TOTAL + 2
Absent == -1            \* a field missing from the JSON answer (dict.get default)

SECONDS_BETWEEN == IF REQUESTS_PER_MINUTE > 0 THEN 60 \div REQUESTS_PER_MINUTE ELSE 0

Min(a, b) == IF a < b THEN a ELSE b
Max(a, b) == IF a > b THEN a ELSE b

\* Largest age the model tells apart: every wait the program makes fits in it.
ClockCap == Max(DefaultRetryWait, Max(ServerErrorSleep, MaxRetryAfter)) + SECONDS_BETWEEN

\* The page size the list endpoint really serves: the requested maxResults,
\* capped by the server.
PageSize == Min(MAX_RESULTS, ServerMaxResults)

Keys == 1..MaxTotal

VARIABLES
    remote,             \* the remote project: its issue keys, oldest first
    misreports,         \* list answers so far that were not the page asked for
    stateFile,          \* state/<project>.json
    rawLog,             \* output/<project>_raw.jsonl, one record per line
    transLog,           \* output/<project>_transformed.jsonl
    pc,                 \* where scrape_project stands
    startAt,            \* scrape_project's cursor
    seen,               \* scrape_project's set of processed keys
    resp,               \* the list answer being processed
    idx,                \* position of the for loop in resp.issues (1-based)
    raw_batch,
    transformed_batch,
    retriesLeft,        \* what is left of Retry.total for the session.get in progress
    last_time,          \* age of scrape_project's last_time, up to SECONDS_BETWEEN
    sinceReq,           \* age of the last outbound request, up to SECONDS_BETWEEN
    sinceResp,          \* age of the last answer received, up to ClockCap
    \* history variables, read by the properties only
    crashes,            \* kills so far
    stable,             \* the remote project has not changed since the latest run started
    outcome,            \* how the latest run stands: none, running, done, error, crash
    after,              \* how the run before the latest one ended
    snap,               \* checkpoint and log lengths when a run started after a completed one
    fresh,              \* the latest run started from an empty checkpoint
    listRequests,       \* list requests of a run started fresh, while none was retried
    retried,            \* a list request of a run started fresh failed and was sent again
    firstQuery,         \* no list answer was received yet in the latest run
    persistedEnd,       \* queried offset + page length of the last page whose save completed
    prev,               \* the failed list answer the next list request follows
    lastGap,            \* at a request in flight: time since the request before it
    waited,             \* at a request in flight: time since the last answer
    loops,              \* times in a row lines 191-194 sent the loop round again
    raisedBy,           \* the failure that made the latest request raise, 200 if it did not
    failing,            \* keys of the page in hand whose detail fetch raised
    lost,               \* keys whose detail fetch raised and whose page was saved, since
                        \* the remote project last changed
    \* main
    proj,               \* main's loop variable: the place in PROJECTS of the project that
                        \* remote, stateFile, rawLog and transLog are the files of
    others,             \* the remote project and the three files of every other project
    attempted,          \* the projects main called scrape_project with, in order
    results,            \* how each of these calls ended: done or error
    mainpc              \* where main stands: off (not running), loop, done

durable == <<remote, misreports, stateFile, rawLog, transLog>>
locals == <<pc, startAt, seen, resp, idx, raw_batch, transformed_batch, retriesLeft>>
clocks == <<last_time, sinceReq, sinceResp>>
history == <<crashes, stable, outcome, after, snap, fresh, listRequests, retried,
             firstQuery, persistedEnd, prev, lastGap, waited, loops, raisedBy>>
losses == <<failing, lost>>
mainv == <<proj, others, attempted, results, mainpc>>
vars == <<durable, locals, clocks, history, losses, mainv>>

\* ------------------------------------------------------------ checkpoint
NoFile == [kind |-> "none", startAt |-> 0, seen_issue_keys |-> {}]
Corrupt == [kind |-> "corrupt", startAt |-> 0, seen_issue_keys |-> {}]
StateJson(s, k) == [kind |-> "ok", startAt |-> s, seen_issue_keys |-> k]

\* read_state: the file's content, or the empty checkpoint when there is none.
\* (A file that is not JSON makes json.load raise: see StartRun.)
read_state_ignoring_file == [startAt |-> 0, seen_issue_keys |-> {}]
read_state ==
    IF stateFile.kind = "ok"
    THEN [startAt |-> stateFile.startAt, seen_issue_keys |-> stateFile.seen_issue_keys]
    ELSE [startAt |-> 0, seen_issue_keys |-> {}]

\* ---------------------------------------------------------------- records
\* The detail endpoint's answer for a key, and its transform.
IssueFull(k) == [key |-> k, id |-> 10000 + k, fields |-> [summary |-> k]]

transform_issue_for_llm(issue_raw) ==
    [metadata |-> [issue_key |-> issue_raw.key],
     title |-> issue_raw.fields.summary,
     raw_issue_id |-> issue_raw.id]

\* write_jsonl: the records are appended to the file, one line each.
write_jsonl_nothing(log, records) == log
write_jsonl(log, records) == log \o records

\* ----------------------------------------------------------------- server
NoResp == [startAt |-> Absent, issues |-> <<>>, total |-> Absent]

\* The list endpoint of an unchanged project: the page of at most PageSize
\* issues at offset c, the offset and the total.
total == Len(remote)

HonestPage(c) ==
    [startAt |-> c, issues |-> SubSeq(remote, c + 1, Min(c + PageSize, total)), total |-> total]

\* The answers of a list endpoint that reports any offset (or none), any item
\* count and maybe no total: some first items of the page at c, said to start
\* anywhere.
AnyPages(c) ==
    {[startAt |-> a, issues |-> SubSeq(HonestPage(c).issues, 1, n), total |-> t] :
        a \in {Absent} \cup (0..MaxTotal),
        n \in 0..Len(HonestPage(c).issues),
        t \in {Absent, total}}

\* A Retry-After header: absent, or the digits of val.
Headers ==
    {[present |-> FALSE, digits |-> FALSE, val |-> 0]}
    \cup {[present |-> TRUE, digits |-> TRUE, val |-> v] : v \in 0..MaxRetryAfter}

\* wait = int(ra) if ra and ra.isdigit() else 60
RetryWait(ra) == IF ra.present /\ ra.digits THEN ra.val ELSE DefaultRetryWait

\* How a request can fail: no answer at all (the connection fails), or an
\* answer with one status of each kind the program and its session tell apart:
\* a client error, 429, a 5xx of status_forcelist, a 5xx outside it.
ConnectionFailed == 0
FailureStatuses == {ConnectionFailed, 404, 429, 500, 501}

\* The Retry-After headers the model's server sends with a status: with 429 only.
HeadersOf(status) ==
    IF status = 429 THEN Headers ELSE {[present |-> FALSE, digits |-> FALSE, val |-> 0]}

\* Retry(total=5, status_forcelist=[...]): what session.get sends again by itself.
Retried(status) == status = ConnectionFailed \/ status \in STATUS_FORCELIST

\* Retry(backoff_factor=1): the sleep before sending again after n failures in
\* a row: none after the first, then backoff_factor * 2^(n-1).
Backoff(n) == IF n <= 1 THEN 0 ELSE BACKOFF_FACTOR * 2^(n - 1)

\* The sleep of session.get before it sends again: the seconds of the answer's
\* Retry-After when it has one (and it is not 0), else the backoff.
AdapterSleep(status, ra, n) ==
    IF status # ConnectionFailed /\ ra.present /\ ra.digits /\ ra.val > 0
    THEN ra.val
    ELSE Backoff(n)

\* raise_for_status: raises on 4xx and 5xx.
raise_for_status(status) == status >= 400

\* dict.get(field, default)
Get(v, default) == IF v = Absent THEN default ELSE v

\* ------------------------------------------------------------------ time
\* throttle_sleep(last_time): the time it sleeps, given last_time's age.
to_wait(age) ==
    IF SECONDS_BETWEEN <= 0 THEN 0
    ELSE IF SECONDS_BETWEEN - age > 0 THEN SECONDS_BETWEEN - age ELSE 0

Aged(age, dt, cap) == Min(age + dt, cap)

NoHeader == [present |-> FALSE, digits |-> FALSE, val |-> 0]
NoPrev == [status |-> 0, offset |-> 0, header |-> NoHeader, checkpoint |-> NoFile]
NoSnap == [taken |-> FALSE, file |-> NoFile, raw |-> 0, trans |-> 0]

\* -------------------------------------------------- scrape_project: pieces
\* The key of the summary the for loop stands at.
CurrentKey == resp.issues[idx]
InLoop == pc = "items" /\ idx <= Len(resp.issues)
LoopDone == pc = "items" /\ idx > Len(resp.issues)

\* if key in seen
AlreadySeen_never(key) == FALSE
AlreadySeen(key) == key \in seen

\* seen.add(key)
SeenWith_forgotten(key) == seen
SeenWith(key) == seen \cup {key}

\* startAt = resp.get("startAt", startAt) + len(issues)
NextStartAt_unmoved == Get(resp.startAt, startAt)
NextStartAt_page_size == Get(resp.startAt, startAt) + PageSize
NextStartAt == Get(resp.startAt, startAt) + Len(resp.issues)

\* if startAt >= resp.get("total", startAt): more_to_fetch = False
Finished_strict(s) == s > Get(resp.total, s)
Finished(s) == s >= Get(resp.total, s)

\* The locals of a process that is not running scrape_project.
LocalsGone ==
    /\ pc' = "idle"
    /\ startAt' = 0
    /\ seen' = {}
    /\ resp' = NoResp
    /\ idx' = 0
    /\ raw_batch' = <<>>
    /\ transformed_batch' = <<>>
    /\ retriesLeft' = RETRY_TOTAL

\* scrape_project returns or raises: its page-level locals are dropped.
RunEnds_as_returned(how) ==
    /\ pc' = "idle"
    /\ resp' = NoResp
    /\ idx' = 0
    /\ raw_batch' = <<>>
    /\ transformed_batch' = <<>>
    /\ retriesLeft' = RETRY_TOTAL
    /\ outcome' = "done"
RunEnds(how) ==
    /\ pc' = "idle"
    /\ resp' = NoResp
    /\ idx' = 0
    /\ raw_batch' = <<>>
    /\ transformed_batch' = <<>>
    /\ retriesLeft' = RETRY_TOTAL
    /\ outcome' = how

\* Time d passes while a request is in flight, then session.get returns or raises.
Answered(d) ==
    /\ sinceReq' = Aged(sinceReq, d, SECONDS_BETWEEN)
    /\ sinceResp' = 0
    /\ lastGap' = SECONDS_BETWEEN
    /\ waited' = 0

\* session.get raises: the connection failed or the status is one it sends
\* again, and nothing is left of Retry.total.
Exhausted(status) == Retried(status) /\ retriesLeft = 0

\* session.get returns a response with this status.
Returned(status) == ~Retried(status)

\* ------------------------------------------------------------- operations
\* A project nothing was crawled of yet: its issues, no checkpoint, no logs.
Unscraped(r) == [remote |-> r, stateFile |-> NoFile, rawLog |-> <<>>, transLog |-> <<>>]

\* A project that was crawled to its end when issue 1 was all of it, before
\* RemoteInsert put issue 2 in front.
CrawledThenGrown ==
    [remote |-> <<2, 1>>,
     stateFile |-> StateJson(1, {1}),
     rawLog |-> <<IssueFull(1)>>,
     transLog |-> <<transform_issue_for_llm(IssueFull(1))>>]

\* The remote projects of at most n issues.
Remotes(n) == {[i \in 1..m |-> i] : m \in 0..n}

\* Before anything ran: no checkpoint, no logs, no process.
InitProcess ==
    /\ proj = 1
    /\ attempted = <<>>
    /\ results = <<>>
    /\ mainpc = "off"
    /\ misreports = 0
    /\ pc = "idle"
    /\ startAt = 0
    /\ seen = {}
    /\ resp = NoResp
    /\ idx = 0
    /\ raw_batch = <<>>
    /\ transformed_batch = <<>>
    /\ retriesLeft = RETRY_TOTAL
    /\ last_time = SECONDS_BETWEEN
    /\ sinceReq = SECONDS_BETWEEN
    /\ sinceResp = ClockCap
    /\ crashes = 0
    /\ stable = FALSE
    /\ outcome = "none"
    /\ after = "none"
    /\ snap = NoSnap
    /\ fresh = FALSE
    /\ listRequests = 0
    /\ retried = FALSE
    /\ firstQuery = FALSE
    /\ persistedEnd = 0
    /\ prev = NoPrev
    /\ lastGap = SECONDS_BETWEEN
    /\ waited = 0
    /\ loops = 0
    /\ raisedBy = 200
    /\ failing = {}
    /\ lost = {}

\* One project, crawled by calls of scrape_project.
Init ==
    /\ InitProcess
    /\ remote \in Remotes(MaxTotal)
    /\ stateFile = NoFile
    /\ rawLog = <<>>
    /\ transLog = <<>>
    /\ others = [j \in DOMAIN PROJECTS |-> Unscraped(<<>>)]

\* scrape_project is called: read_state, then the locals of lines 164-171.
\* A checkpoint file that is not JSON makes json.load raise out of the call.
scrape_project ==
    /\ pc = "idle"
    /\ after' = outcome
    /\ stable' = TRUE
    /\ IF stateFile.kind = "corrupt"
       THEN /\ outcome' = "error"
            /\ UNCHANGED <<durable, locals, clocks, crashes, snap, fresh, listRequests,
                           retried, firstQuery, persistedEnd, prev, lastGap, waited,
                           loops, raisedBy>>
       ELSE /\ pc' = "query"
            /\ startAt' = read_state.startAt
            /\ seen' = read_state.seen_issue_keys
            /\ resp' = NoResp
            /\ idx' = 0
            /\ raw_batch' = <<>>
            /\ transformed_batch' = <<>>
            /\ last_time' = 0
            /\ outcome' = "running"
            /\ snap' = IF outcome = "done" /\ stable
                       THEN [taken |-> TRUE, file |-> stateFile,
                             raw |-> Len(rawLog), trans |-> Len(transLog)]
                       ELSE NoSnap
            /\ fresh' = (stateFile.kind = "none")
            /\ listRequests' = 0
            /\ retried' = FALSE
            /\ firstQuery' = TRUE
            /\ prev' = NoPrev
            /\ lastGap' = SECONDS_BETWEEN
            /\ waited' = 0
            /\ loops' = 0
            /\ raisedBy' = 200
            /\ UNCHANGED <<durable, retriesLeft, sinceReq, sinceResp, crashes, persistedEnd>>
    /\ failing' = {}
    /\ UNCHANGED lost

\* scrape_project is called for the one project.
StartRun ==
    /\ scrape_project
    /\ UNCHANGED mainv

\* Top of the while loop: throttle_sleep, then session.get is sent.
IssueList ==
    /\ pc = "query"
    /\ LET w == to_wait(last_time) IN
        /\ lastGap' = Aged(sinceReq, w, SECONDS_BETWEEN)
        /\ waited' = Aged(sinceResp, w, ClockCap)
        /\ sinceResp' = Aged(sinceResp, w, ClockCap)
    /\ sinceReq' = 0
    /\ last_time' = 0
    /\ pc' = "list_wait"
    /\ retriesLeft' = RETRY_TOTAL
    /\ listRequests' = IF fresh /\ ~retried THEN Min(listRequests + 1, MaxTotal + 2) ELSE 0
    /\ raisedBy' = 200
    /\ UNCHANGED <<durable, startAt, seen, resp, idx, raw_batch, transformed_batch,
                   crashes, stable, outcome, after, snap, fresh, retried, firstQuery,
                   persistedEnd, prev, loops>>
    /\ UNCHANGED mainv
    /\ UNCHANGED losses

\* The list request is answered 200 with page r after d seconds.
ListOK(r, d) ==
    /\ pc = "list_wait"
    /\ Answered(d)
    /\ last_time' = Aged(last_time, d, SECONDS_BETWEEN)
    /\ firstQuery' = FALSE
    /\ prev' = NoPrev
    /\ loops' = 0
    /\ raisedBy' = 200
    /\ IF r.issues = <<>>
       THEN /\ RunEnds("done")
            /\ UNCHANGED <<startAt, seen>>
       ELSE /\ pc' = "items"
            /\ resp' = r
            /\ idx' = 1
            /\ raw_batch' = <<>>
            /\ transformed_batch' = <<>>
            /\ retriesLeft' = RETRY_TOTAL
            /\ UNCHANGED <<startAt, seen, outcome>>
    /\ UNCHANGED <<remote, stateFile, rawLog, transLog, crashes, stable, after, snap, fresh,
                   listRequests, retried, persistedEnd>>
    /\ UNCHANGED mainv
    /\ UNCHANGED losses

\* Inside session.get (list or detail): the connection failed, or the answer's
\* status is in status_forcelist, and Retry.total is not used up: the session
\* sleeps and sends the same request again.  No throttle_sleep is in between.
AdapterRetry(status, ra, d) ==
    /\ pc \in {"list_wait", "detail_wait"}
    /\ Retried(status)
    /\ retriesLeft > 0
    /\ retriesLeft' = retriesLeft - 1
    /\ LET sleep == AdapterSleep(status, ra, RETRY_TOTAL - retriesLeft + 1) IN
        /\ lastGap' = Aged(sinceReq, d + sleep, SECONDS_BETWEEN)
        /\ waited' = Aged(0, sleep, ClockCap)
        /\ sinceResp' = Aged(0, sleep, ClockCap)
        /\ last_time' = Aged(last_time, d + sleep, SECONDS_BETWEEN)
    /\ sinceReq' = 0
    /\ IF pc = "list_wait"
       THEN /\ retried' = fresh
            /\ listRequests' = 0
            /\ firstQuery' = FALSE
            /\ prev' = [status |-> status, offset |-> startAt, header |-> ra,
                        checkpoint |-> stateFile]
       ELSE UNCHANGED <<retried, listRequests, firstQuery, prev>>
    /\ loops' = 0
    /\ UNCHANGED <<durable, pc, startAt, seen, resp, idx, raw_batch, transformed_batch,
                   crashes, stable, outcome, after, snap, fresh, persistedEnd, raisedBy>>
    /\ UNCHANGED mainv
    /\ UNCHANGED losses

\* Lines 191-194: session.get returned a response with a status >= 500 (one
\* outside status_forcelist): sleep 10 s, then continue.
List5xx(status, d) ==
    /\ pc = "list_wait"
    /\ Returned(status)
    /\ status >= 500
    /\ sinceReq' = Aged(sinceReq, d + ServerErrorSleep, SECONDS_BETWEEN)
    /\ sinceResp' = Aged(0, ServerErrorSleep, ClockCap)
    /\ last_time' = Aged(last_time, d + ServerErrorSleep, SECONDS_BETWEEN)
    /\ lastGap' = SECONDS_BETWEEN
    /\ waited' = 0
    /\ pc' = "query"
    /\ retriesLeft' = RETRY_TOTAL
    /\ retried' = fresh
    /\ listRequests' = 0
    /\ firstQuery' = FALSE
    /\ prev' = [status |-> status, offset |-> startAt, header |-> NoHeader,
                checkpoint |-> stateFile]
    /\ loops' = Min(loops + 1, MaxLoops)
    /\ UNCHANGED <<durable, startAt, seen, resp, idx, raw_batch, transformed_batch,
                   crashes, stable, outcome, after, snap, fresh, persistedEnd, raisedBy>>
    /\ UNCHANGED mainv
    /\ UNCHANGED losses

\* session.get raises (Retry.total used up on connection failures or statuses of
\* status_forcelist), or it returns another 4xx and raise_for_status (line 195)
\* raises: the exception leaves scrape_project.
ListError(status, d) ==
    /\ pc = "list_wait"
    /\ \/ Exhausted(status)
       \/ Returned(status) /\ status < 500 /\ raise_for_status(status)
    /\ Answered(d)
    /\ last_time' = Aged(last_time, d, SECONDS_BETWEEN)
    /\ firstQuery' = FALSE
    /\ prev' = NoPrev
    /\ loops' = 0
    /\ raisedBy' = status
    /\ RunEnds("error")
    /\ UNCHANGED <<durable, startAt, seen, crashes, stable, after, snap, fresh, listRequests,
                   retried, persistedEnd>>
    /\ UNCHANGED mainv
    /\ UNCHANGED losses

\* for it in issues: the key is in seen, continue.
ItemSkip ==
    /\ InLoop
    /\ AlreadySeen(CurrentKey)
    /\ idx' = idx + 1
    /\ UNCHANGED <<durable, pc, startAt, seen, resp, raw_batch, transformed_batch,
                   retriesLeft, clocks, history>>
    /\ UNCHANGED mainv
    /\ UNCHANGED losses

\* fetch_issue is called: throttle_sleep(last_time), then session.get is sent.
IssueDetail ==
    /\ InLoop
    /\ ~AlreadySeen(CurrentKey)
    /\ LET w == to_wait(last_time) IN
        /\ lastGap' = Aged(sinceReq, w, SECONDS_BETWEEN)
        /\ sinceResp' = Aged(sinceResp, w, ClockCap)
        /\ waited' = Aged(sinceResp, w, ClockCap)
        /\ last_time' = Aged(last_time, w, SECONDS_BETWEEN)
    /\ sinceReq' = 0
    /\ pc' = "detail_wait"
    /\ retriesLeft' = RETRY_TOTAL
    /\ raisedBy' = 200
    /\ UNCHANGED <<durable, startAt, seen, resp, idx, raw_batch, transformed_batch,
                   crashes, stable, outcome, after, snap, fresh, listRequests, retried,
                   firstQuery, persistedEnd, prev, loops>>
    /\ UNCHANGED mainv
    /\ UNCHANGED losses

\* The detail request is answered 200: fetch_issue returns (r.json(), time.time()),
\* the record is staged and its key added to seen.
DetailOK(d) ==
    /\ pc = "detail_wait"
    /\ Answered(d)
    /\ last_time' = 0
    /\ raw_batch' = Append(raw_batch, IssueFull(CurrentKey))
    /\ transformed_batch' = Append(transformed_batch, transform_issue_for_llm(IssueFull(CurrentKey)))
    /\ seen' = SeenWith(CurrentKey)
    /\ idx' = idx + 1
    /\ pc' = "items"
    /\ retriesLeft' = RETRY_TOTAL
    /\ UNCHANGED <<durable, startAt, resp, crashes, stable, outcome, after, snap, fresh,
                   listRequests, retried, firstQuery, persistedEnd, prev, loops, raisedBy>>
    /\ UNCHANGED mainv
    /\ UNCHANGED losses

\* fetch_issue raises: session.get raises (Retry.total used up), or it returns
\* a 4xx or a 5xx outside status_forcelist and raise_for_status (line 158)
\* raises.  scrape_project logs it and continues; its last_time is not updated.
DetailFail(status, d) ==
    /\ pc = "detail_wait"
    /\ \/ Exhausted(status)
       \/ Returned(status) /\ raise_for_status(status)
    /\ Answered(d)
    /\ last_time' = Aged(last_time, d, SECONDS_BETWEEN)
    /\ idx' = idx + 1
    /\ pc' = "items"
    /\ retriesLeft' = RETRY_TOTAL
    /\ raisedBy' = status
    /\ UNCHANGED <<durable, startAt, seen, resp, raw_batch, transformed_batch,
                   crashes, stable, outcome, after, snap, fresh, listRequests, retried,
                   firstQuery, persistedEnd, prev, loops>>
    /\ UNCHANGED mainv
    /\ failing' = failing \cup {CurrentKey}
    /\ UNCHANGED lost

\* if raw_batch: write_jsonl(raw_out, raw_batch)
WriteRaw ==
    /\ LoopDone
    /\ raw_batch # <<>>
    /\ rawLog' = write_jsonl(rawLog, raw_batch)
    /\ pc' = "write_transformed"
    /\ UNCHANGED <<remote, misreports, stateFile, transLog, startAt, seen, resp, idx, raw_batch,
                   transformed_batch, retriesLeft, clocks, history>>
    /\ UNCHANGED mainv
    /\ UNCHANGED losses

\* write_jsonl(transformed_out, transformed_batch)
WriteTransformed ==
    /\ pc = "write_transformed"
    /\ transLog' = write_jsonl(transLog, transformed_batch)
    /\ pc' = "save"
    /\ UNCHANGED <<remote, misreports, stateFile, rawLog, startAt, seen, resp, idx, raw_batch,
                   transformed_batch, retriesLeft, clocks, history>>
    /\ UNCHANGED mainv
    /\ UNCHANGED losses

AtSave == pc = "save" \/ (LoopDone /\ raw_batch = <<>>)

\* Lines 229-235: the cursor moves, the checkpoint is saved, the loop ends or goes on.
SaveState ==
    /\ AtSave
    /\ startAt' = NextStartAt
    /\ stateFile' = StateJson(NextStartAt, seen)
    /\ persistedEnd' = startAt + Len(resp.issues)
    /\ IF Finished(NextStartAt)
       THEN RunEnds("done")
       ELSE /\ pc' = "query"
            /\ resp' = NoResp
            /\ idx' = 0
            /\ raw_batch' = <<>>
            /\ transformed_batch' = <<>>
            /\ UNCHANGED <<outcome, retriesLeft>>
    /\ UNCHANGED <<remote, misreports, rawLog, transLog, seen, clocks, crashes, stable, after, snap, fresh,
                   listRequests, retried, firstQuery, prev, lastGap, waited, loops, raisedBy>>
    /\ UNCHANGED mainv
    /\ lost' = lost \cup failing
    /\ failing' = {}

\* What a kill leaves of the process, whatever it was doing.
Killed ==
    /\ pc # "idle"
    /\ crashes < MaxCrashes
    /\ crashes' = crashes + 1
    /\ LocalsGone
    /\ outcome' = "crash"
    /\ last_time' = SECONDS_BETWEEN
    /\ sinceReq' = SECONDS_BETWEEN
    /\ sinceResp' = ClockCap
    /\ listRequests' = 0
    /\ retried' = FALSE
    /\ firstQuery' = FALSE
    /\ prev' = NoPrev
    /\ lastGap' = SECONDS_BETWEEN
    /\ waited' = 0
    /\ loops' = 0
    /\ raisedBy' = 200
    /\ UNCHANGED <<remote, misreports, rawLog, transLog, stable, after, snap, fresh, persistedEnd>>
    /\ UNCHANGED mainv
    /\ failing' = {}
    /\ UNCHANGED lost

\* The process is killed between two file operations.
Crash ==
    /\ Killed
    /\ UNCHANGED stateFile

\* The process is killed inside save_state, after open(path, "w") truncated the
\* file and before json.dump wrote all of it.
CrashInSave ==
    /\ AtSave
    /\ Killed
    /\ stateFile' = Corrupt

\* Between two runs an issue created earlier than all others appears in the
\* project (an issue moved in from another project keeps its creation date):
\* every issue moves one place down the query's order.
RemoteInsert ==
    /\ pc = "idle"
    /\ total < MaxTotal
    /\ remote' = <<total + 1>> \o remote
    /\ stable' = FALSE
    /\ UNCHANGED <<misreports, stateFile, rawLog, transLog, locals, clocks, crashes, outcome, after,
                   snap, fresh, listRequests, retried, firstQuery, persistedEnd, prev,
                   lastGap, waited, loops, raisedBy>>
    /\ UNCHANGED mainv
    /\ lost' = {}
    /\ UNCHANGED failing

\* The steps of scrape_project once it is called, and the failures of its requests.
ProgramSteps ==
    \/ IssueList
    \/ \E status \in FailureStatuses, d \in 0..MaxLatency :
          \E ra \in HeadersOf(status) : AdapterRetry(status, ra, d)
    \/ \E status \in FailureStatuses, d \in 0..MaxLatency : List5xx(status, d)
    \/ \E status \in FailureStatuses, d \in 0..MaxLatency : ListError(status, d)
    \/ ItemSkip
    \/ IssueDetail
    \/ \E d \in 0..MaxLatency : DetailOK(d)
    \/ \E status \in FailureStatuses, d \in 0..MaxLatency : DetailFail(status, d)
    \/ WriteRaw
    \/ WriteTransformed
    \/ SaveState

Steps ==
    \/ StartRun
    \/ ProgramSteps
    \/ Crash
    \/ CrashInSave

\* The list endpoint answers with the page asked for.
ServerAnswers(d) ==
    /\ ListOK(HonestPage(startAt), d)
    /\ UNCHANGED misreports

\* The list endpoint answers 200 with something else than the page asked for.
ServerMisreports(r, d) ==
    /\ misreports < MaxMisreports
    /\ r # HonestPage(startAt)
    /\ ListOK(r, d)
    /\ misreports' = misreports + 1

\* The remote project answers list requests with the page asked for.
Next ==
    \/ \E d \in 0..MaxLatency : ServerAnswers(d)
    \/ RemoteInsert
    \/ Steps

Spec == Init /\ [][Next]_vars

\* One project that is never changed, with the progress the program and its
\* requests are sure of: a
\* running scrape_project takes its next step; a detail request ends, with an
\* answer or with a failure (timeout=30, and at most Retry.total more sends);
\* and a list request that is sent again and again is in the end answered
\* with the page asked for.
DetailEnds ==
    \E status \in FailureStatuses, d \in 0..MaxLatency :
        \/ DetailOK(d)
        \/ DetailFail(status, d)
        \/ pc = "detail_wait" /\ \E ra \in HeadersOf(status) : AdapterRetry(status, ra, d)

ProgramStep ==
    IssueList \/ ItemSkip \/ IssueDetail \/ WriteRaw \/ WriteTransformed \/ SaveState

\* One project that does not change any more: never crawled, or crawled
\* before it grew.
InitLive ==
    /\ InitProcess
    /\ \E f \in {Unscraped(r) : r \in Remotes(MaxTotal)} \cup {CrawledThenGrown} :
          /\ remote = f.remote
          /\ stateFile = f.stateFile
          /\ rawLog = f.rawLog
          /\ transLog = f.transLog
    /\ others = [j \in DOMAIN PROJECTS |-> Unscraped(<<>>)]

NextLive ==
    \/ \E d \in 0..MaxLatency : ServerAnswers(d)
    \/ Steps

SpecLive ==
    /\ InitLive
    /\ [][NextLive]_vars
    /\ WF_vars(ProgramStep)
    /\ WF_vars(DetailEnds)
    /\ SF_vars(\E d \in 0..MaxLatency : ServerAnswers(d))

\* The list endpoint may also report any offset and any item count.
NextAnyServer ==
    \/ \E d \in 0..MaxLatency : ServerAnswers(d)
    \/ \E r \in AnyPages(startAt), d \in 0..MaxLatency : ServerMisreports(r, d)
    \/ Steps

SpecAnyServer == Init /\ [][NextAnyServer]_vars

\* ------------------------------------------------------------------ main
\* The remote project and the files of project j.  Every path scrape_project
\* opens has project_key in its name (lines 72, 79, 166, 167).
FilesOf(j) ==
    IF j = proj
    THEN [remote |-> remote, stateFile |-> stateFile, rawLog |-> rawLog, transLog |-> transLog]
    ELSE others[j]

\* try: scrape_project(proj) / except Exception: the for loop goes on after a
\* call that returned and after one that raised.
LoopGoesOn_unless_error(how) == how = "done"
LoopGoesOn(how) == how \in {"done", "error"}

\* What main can find of a project: at most MainMaxTotal issues never
\* crawled, or the project crawled before it grew.
FoundProjects == {Unscraped(r) : r \in Remotes(MainMaxTotal)} \cup {CrawledThenGrown}

InitMain ==
    /\ InitProcess
    /\ \E f \in FoundProjects :
          /\ remote = f.remote
          /\ stateFile = f.stateFile
          /\ rawLog = f.rawLog
          /\ transLog = f.transLog
    /\ others \in [DOMAIN PROJECTS -> FoundProjects]

\* main is called: the for loop stands at the first project.
MainStart ==
    /\ mainpc = "off"
    /\ pc = "idle"
    /\ mainpc' = "loop"
    /\ UNCHANGED <<durable, locals, clocks, history, proj, others, attempted, results>>
    /\ UNCHANGED losses

\* try: scrape_project(proj)
MainCall ==
    /\ mainpc = "loop"
    /\ Len(attempted) < proj
    /\ scrape_project
    /\ attempted' = Append(attempted, proj)
    /\ UNCHANGED <<proj, others, results, mainpc>>

\* scrape_project returned, or raised and the exception was logged: the for
\* loop takes the next project; after the last one main returns.  An
\* exception that is not caught ends main.
MainNext ==
    /\ mainpc = "loop"
    /\ pc = "idle"
    /\ Len(attempted) = proj
    /\ results' = Append(results, outcome)
    /\ IF LoopGoesOn(outcome) /\ proj < Len(PROJECTS)
       THEN /\ proj' = proj + 1
            /\ others' = [others EXCEPT ![proj] = FilesOf(proj)]
            /\ remote' = others[proj + 1].remote
            /\ stateFile' = others[proj + 1].stateFile
            /\ rawLog' = others[proj + 1].rawLog
            /\ transLog' = others[proj + 1].transLog
            /\ UNCHANGED mainpc
       ELSE /\ mainpc' = "done"
            /\ UNCHANGED <<proj, others, remote, stateFile, rawLog, transLog>>
    /\ UNCHANGED <<misreports, locals, clocks, history, attempted>>
    /\ lost' = {}
    /\ UNCHANGED failing

\* One call of main over PROJECTS, every list request answered with the page
\* asked for or failing.
NextMain ==
    \/ MainStart
    \/ MainCall
    \/ MainNext
    \/ \E d \in 0..MaxLatency : ServerAnswers(d)
    \/ ProgramSteps

SpecMain == InitMain /\ [][NextMain]_vars

\* ------------------------------------------------------------- properties
KeyCount(log, k) == Cardinality({i \in 1..Len(log) : log[i].key = k})
LoggedKeys == {rawLog[i].key : i \in 1..Len(rawLog)}
Ceil(a, b) == (a + b - 1) \div b

\* C1: while the process was never killed, whatever list requests were
\* answered 429 or 5xx or with an error and whatever detail fetches failed,
\* over any number of runs, no key has two lines in the raw log.
C1_AtMostOnceWithoutCrash ==
    crashes = 0 => \A k \in Keys : KeyCount(rawLog, k) <= 1

\* C1 witness: never killed, a run that ended with an error was followed by a
\* run that completed, with two records logged and one issue left out by a
\* failed detail fetch.
C1_Witness ==
    /\ crashes = 0
    /\ after = "error"
    /\ outcome = "done"
    /\ Len(rawLog) >= 2
    /\ \E i \in 1..total : remote[i] \notin LoggedKeys

\* C2 (as claimed): when a run restarted after a kill has completed, every
\* key that is logged or in the saved checkpoint has exactly one raw line.
C2_ExactlyOnceAcrossCrash ==
    (after = "crash" /\ outcome = "done") =>
        \A k \in LoggedKeys \cup stateFile.seen_issue_keys : KeyCount(rawLog, k) = 1

\* C3: a run started after a completed run, the remote project unchanged
\* since that completed run started, appends nothing to either log and leaves
\* the checkpoint file as it was.
C3_SecondRunChangesNothing ==
    (snap.taken /\ stable) =>
        /\ stateFile = snap.file
        /\ Len(rawLog) = snap.raw
        /\ Len(transLog) = snap.trans

\* C3 witness: such a second run has completed, over a crawled project of
\* more than one page.
C3_Witness ==
    /\ snap.taken
    /\ stable
    /\ outcome = "done"
    /\ Len(rawLog) > PageSize

\* C4 (as claimed): a run started from an empty checkpoint that completed
\* with no list request retried made ceil(total / PageSize) list requests and
\* ended with startAt >= total.
C4_CeilRequests ==
    (outcome = "done" /\ fresh /\ ~retried /\ stable) =>
        /\ listRequests = Ceil(total, PageSize)
        /\ startAt >= total

\* C4 (amended): the same, with one list request when the project is empty.
C4_CeilRequestsOrOne ==
    (outcome = "done" /\ fresh /\ ~retried /\ stable) =>
        /\ listRequests = (IF total = 0 THEN 1 ELSE Ceil(total, PageSize))
        /\ startAt >= total

\* C4 witness: such a run over a project of two pages, the last one short.
C4_Witness ==
    /\ outcome = "done"
    /\ fresh
    /\ ~retried
    /\ stable
    /\ total = PageSize + 1
    /\ listRequests = 2

C6_RetrySameQueryAfterWait ==
    (pc = "list_wait" /\ prev.status >= 400) =>
        /\ startAt = prev.offset
        /\ stateFile = prev.checkpoint
        /\ prev.status >= 500 => waited > 0
        /\ prev.status = 429 => waited >= RetryWait(prev.header)

\* C7: at a summary whose key is in seen, the step the program takes sends
\* no detail request and stages nothing.
C7_SkipOnSeen ==
    [][(InLoop /\ CurrentKey \in seen /\ crashes' = crashes) =>
          /\ pc' # "detail_wait"
          /\ raw_batch' = raw_batch
          /\ transformed_batch' = transformed_batch]_vars

\* C7 witness: in a run started from an empty checkpoint, the loop has passed
\* a summary whose key is in seen and is not staged on this page: it was
\* added earlier in the run and skipped here.
C7_Witness ==
    /\ outcome = "running"
    /\ fresh
    /\ pc = "items"
    /\ idx > 1
    /\ resp.issues[idx - 1] \in seen
    /\ \A i \in 1..Len(raw_batch) : raw_batch[i].key # resp.issues[idx - 1]

\* A page was saved and the next is about to be asked for, or the run completed.
PageBoundary ==
    \/ pc = "query" /\ ~firstQuery /\ prev.status = 0
    \/ pc = "idle" /\ outcome = "done"

\* C8 (as claimed): at every page boundary, after a kill and a restart too,
\* the transformed log is, line by line, the transform of the raw log.
C8_LogsCorrespond ==
    PageBoundary =>
        /\ Len(transLog) = Len(rawLog)
        /\ \A i \in 1..Len(rawLog) : transLog[i] = transform_issue_for_llm(rawLog[i])

\* C9 (as claimed): from one saved checkpoint to the next, seen only grows
\* and the cursor does not decrease.
C9_CheckpointMonotone ==
    [][(stateFile.kind = "ok" /\ stateFile'.kind = "ok") =>
          /\ stateFile.seen_issue_keys \subseteq stateFile'.seen_issue_keys
          /\ stateFile.startAt <= stateFile'.startAt]_vars

\* C10 (as claimed): every request in flight was sent at least
\* SECONDS_BETWEEN after the request before it.
C10_MinimumSpacing ==
    pc \in {"list_wait", "detail_wait"} => lastGap >= SECONDS_BETWEEN

\* C11 (as claimed): the list request is not retried without end on 5xx
\* answers: the rounds of the while loop that ask for the same page again
\* after a 5xx answer, in a row, never outnumber the retries the session is
\* configured with (Retry.total).
C11_BoundedTransientRetries ==
    loops <= RETRY_TOTAL

\* C12 (as claimed): a 429 only makes the same request wait and go again: no
\* run ends with an error raised for a 429, no item is passed over because its
\* detail request raised for a 429, and a request sent again after a 429 has
\* all of Retry.total left.
C12_RateLimitNeverAnError ==
    /\ outcome = "error" => raisedBy # 429
    /\ pc = "items" => raisedBy # 429
    /\ (pc = "list_wait" /\ prev.status = 429) => retriesLeft = RETRY_TOTAL

\* C13: main calls scrape_project with the projects of PROJECTS in their
\* order, each once; when main has returned it has called it with every one
\* of them, whichever calls raised; and no step changes the checkpoint or a
\* log of a project other than the one scrape_project was called with.
C13_SourcesIsolated ==
    /\ [](\A i \in 1..Len(attempted) : attempted[i] = i)
    /\ [](mainpc = "done" => Len(attempted) = Len(PROJECTS))
    /\ [][\A j \in DOMAIN PROJECTS : j # proj => FilesOf(j)' = FilesOf(j)]_vars

\* A state Spec reaches, of the kind InitMain and InitLive start from: the
\* files of the project are those of CrawledThenGrown.
CrawledThenGrownIsReached ==
    /\ pc = "idle"
    /\ FilesOf(proj) = CrawledThenGrown

\* C13 witness: main has returned; the call for the first project raised, the
\* second project, called after it, was crawled and logged, and the first
\* project's files are as nothing ever wrote them.
C13_Witness ==
    /\ mainpc = "done"
    /\ results[1] = "error"
    /\ results[2] = "done"
    /\ Len(FilesOf(2).rawLog) > 0
    /\ FilesOf(1).stateFile = NoFile
    /\ Len(FilesOf(1).remote) > 0

\* The statuses of a client error that is not a rate limit.
ClientErrors == {status \in FailureStatuses : status >= 400 /\ status < 500 /\ status # 429}

\* C14: the step in which a list request is answered with a 4xx other than 429
\* ends the run with an error and leaves the checkpoint file and both logs as
\* they were, the cursor and seen of the aborted run being those of the
\* checkpoint; the step in which a detail request is answered so ends that
\* item only: the loop stands at the next summary, the run goes on, and seen,
\* what is staged, the cursor and the files are as they were.
C14_ClientErrorScope ==
    [][/\ (pc = "list_wait" /\ raisedBy' \in ClientErrors) =>
             /\ pc' = "idle"
             /\ outcome' = "error"
             /\ UNCHANGED <<stateFile, rawLog, transLog>>
             /\ startAt' = read_state.startAt
             /\ seen' = read_state.seen_issue_keys
       /\ (pc = "detail_wait" /\ raisedBy' \in ClientErrors) =>
             /\ pc' = "items"
             /\ idx' = idx + 1
             /\ outcome' = "running"
             /\ UNCHANGED <<stateFile, rawLog, transLog, startAt, seen, resp,
                            raw_batch, transformed_batch>>]_vars

\* C14 witness: on a page of two issues the first was fetched and the second
\* answered 404; the page was persisted all the same, with the first issue in
\* both logs and in seen and the cursor past both.
C14_Witness ==
    /\ raisedBy \in ClientErrors
    /\ outcome = "done"
    /\ crashes = 0
    /\ fresh
    /\ stable
    /\ total = 2
    /\ stateFile = StateJson(2, {remote[1]})
    /\ LoggedKeys = {remote[1]}
    /\ Len(transLog) = 1

\* A step that saves the checkpoint of a page.
PageSaved == AtSave /\ stateFile' # stateFile /\ stateFile'.kind = "ok"

\* C15 (as claimed): the cursor saved after a page asked for at offset startAt
\* is startAt + PageSize, for a short last page too.
C15_CursorAdvancesByPageSize ==
    [][PageSaved => stateFile'.startAt = startAt + PageSize]_vars

\* C15 (amended): the cursor saved after a page is the offset the answer
\* reports (the offset asked for when it reports none) plus the number of
\* issues the page holds.
C15_CursorAdvancesByItems ==
    [][PageSaved => stateFile'.startAt = Get(resp.startAt, startAt) + Len(resp.issues)]_vars

\* C15 witness: a crawl of PageSize + 1 issues, every answer the page asked
\* for, has saved its short last page: the cursor is PageSize + 1.
C15_Witness ==
    /\ outcome = "done"
    /\ misreports = 0
    /\ fresh
    /\ total = PageSize + 1
    /\ stateFile.kind = "ok"
    /\ stateFile.startAt = PageSize + 1
    /\ persistedEnd = PageSize + 1

\* C16 (as claimed): in the checkpoint file of a crawl started from an empty
\* checkpoint, the project unchanged since, every issue that lies before the
\* saved cursor is in the saved seen set.
C16_CursorCoversAccounted ==
    (stateFile.kind = "ok" /\ fresh /\ stable) =>
        \A i \in 1..Min(stateFile.startAt, total) : remote[i] \in stateFile.seen_issue_keys

\* The keys of the records staged for the page in hand.
StagedKeys ==
    {raw_batch[i].key : i \in 1..Len(raw_batch)}
        \cup {transformed_batch[i].metadata.issue_key : i \in 1..Len(transformed_batch)}

\* C17: the step in which the detail fetch of an issue raises adds nothing to
\* seen, stages and writes nothing, and leaves the loop at the next summary;
\* no record is staged for such an issue; the page is saved all the same, with
\* the cursor past all of it and the issue not in the saved seen set; and
\* while the remote project is unchanged no detail request is sent any more,
\* in this run or a later one, for an issue whose fetch raised and whose page
\* was saved.
C17_FailedItemHandling ==
    /\ [](failing \cap StagedKeys = {})
    /\ [](pc = "detail_wait" => CurrentKey \notin lost)
    /\ [][/\ (pc = "detail_wait" /\ CurrentKey \in failing') =>
                 /\ pc' = "items"
                 /\ idx' = idx + 1
                 /\ UNCHANGED <<seen, raw_batch, transformed_batch, rawLog, transLog,
                                stateFile, startAt>>
          /\ (PageSaved /\ failing # {}) =>
                 /\ stateFile'.startAt = startAt + Len(resp.issues)
                 /\ failing \cap stateFile'.seen_issue_keys = {}
                 /\ UNCHANGED <<rawLog, transLog>>]_vars

\* C17 witness: on the first page the fetch of one issue raised and the other
\* issue was logged; the crawl went on to its end and a second run, started
\* from the saved checkpoint with the project unchanged, has completed: the
\* issue is in no log and not in seen.
C17_Witness ==
    /\ snap.taken
    /\ stable
    /\ outcome = "done"
    /\ total > PageSize
    /\ \E k \in lost :
          /\ k \in {remote[1], remote[2]}
          /\ k \notin LoggedKeys
          /\ k \notin stateFile.seen_issue_keys
          /\ {remote[1], remote[2]} \ {k} \subseteq LoggedKeys

\* The step in which a list request is answered 200.
ListAnswered ==
    /\ pc = "list_wait"
    /\ pc' \in {"items", "idle"}
    /\ raisedBy' = 200
    /\ crashes' = crashes

\* C18: with every list request that is sent again and again answered in the
\* end with its page, a running scrape_project stops; a list answer with no
\* issue ends the run and changes neither the checkpoint file nor a log, one
\* with issues does not end it; a save ends the run when the saved cursor is
\* at or past the total the answer reports, and only then; and a run ends as
\* done in no other step.
C18_Termination ==
    /\ (outcome = "running") ~> (outcome # "running")
    /\ [][/\ ListAnswered =>
                 IF HonestPage(startAt).issues = <<>>
                 THEN outcome' = "done" /\ UNCHANGED <<stateFile, rawLog, transLog, startAt, seen>>
                 ELSE outcome' = "running" /\ pc' = "items"
          /\ PageSaved => (outcome' = "done" <=> stateFile'.startAt >= resp.total)
          /\ (outcome = "running" /\ outcome' = "done") =>
                 \/ PageSaved
                 \/ ListAnswered /\ HonestPage(startAt).issues = <<>>]_vars

\* C18 witness: a crawl of MaxTotal issues from an empty checkpoint, a list
\* request of which was sent again after a failure, has ended with the cursor
\* at the total.
C18_Witness ==
    /\ outcome = "done"
    /\ fresh
    /\ retried
    /\ crashes = 0
    /\ stable
    /\ total = MaxTotal
    /\ stateFile.kind = "ok"
    /\ stateFile.startAt = total

\* C19: in every state, those after a kill at any point included, every key
\* of the seen set in the checkpoint file has a line in the raw log.
C19_SeenImpliesLogged ==
    stateFile.seen_issue_keys \subseteq LoggedKeys

\* C19 witness: the process was killed in a later page, after a page was
\* written and saved: the checkpoint file holds that page's keys.
C19_Witness ==
    /\ outcome = "crash"
    /\ stateFile.kind = "ok"
    /\ Cardinality(stateFile.seen_issue_keys) = PageSize
    /\ Len(rawLog) > PageSize

====
